---- MODULE Spec2Model ----
(***************************************************************************)
(* Model of the word prediction engine of pisak                           *)
(* (pisak/predictions/beam_search.py) and of the threaded service around  *)
(* it (pisak/predictions/prediction_service.py).                          *)
(*                                                                         *)
(* Text is a sequence of one-character strings.  The word-start marker of *)
(* SentencePiece (U+2581) is written "_".  Probabilities are integer      *)
(* percents; logarithms are fixed point, in units of 1/1000 nat.          *)
(***************************************************************************)
EXTENDS Integers, Sequences, FiniteSets, TLC

\* ------------------------------------------------------------------------
\* Bounds of the model
\* ------------------------------------------------------------------------
MaxK == 2
MaxBeamWidth == 3
ShortWordLength == 2
LongWordLength == 11
MaxThreads == 2
MaxRequests == 2
MaxQueue == 2

\* ------------------------------------------------------------------------
\* Characters and Python string helpers
\* ------------------------------------------------------------------------
Letters == {"a", "e", "h", "l", "o", "p", "s", "t"}
Whitespace == {" ", "\t", "\n"}
Marker == "_"

Range(s) == {s[i] : i \in 1..Len(s)}

\* str.lower on the characters the model uses
Lower(c) == IF c = "H" THEN "h" ELSE IF c = "S" THEN "s" ELSE c

\* str.isalpha: non-empty and letters only
isalpha(text) == text # <<>> /\ Range(text) \subseteq Letters

RECURSIVE lstrip(_)
lstrip(text) ==
    IF text # <<>> /\ Head(text) \in Whitespace THEN lstrip(Tail(text)) ELSE text

RECURSIVE rstrip(_)
rstrip(text) ==
    IF text # <<>> /\ text[Len(text)] \in Whitespace
    THEN rstrip(SubSeq(text, 1, Len(text) - 1))
    ELSE text

strip(text) == rstrip(lstrip(text))

IsPrefix(p, s) == Len(p) <= Len(s) /\ SubSeq(s, 1, Len(p)) = p

\* ------------------------------------------------------------------------
\* Tokenizer (SentencePieceTokenizer): a five-piece vocabulary, ids 0..4.
\* The vocabulary is read from the tokenizer file the engine is constructed
\* with: the first one has letters only, in the second the last piece is a
\* word-start piece that is a digit.
\* ------------------------------------------------------------------------
VARIABLE
    tokenizer               \* which vocabulary the engine's tokenizer holds

Vocabularies ==
    << << <<"<unk>">>,
          <<"_", "h", "e">>,
          <<"_", "s", "a", "t">>,
          <<"l", "p">>,
          <<"l", "l", "o">> >>,
       << <<"<unk>">>,
          <<"_", "h", "e">>,
          <<"_", "s", "a", "t">>,
          <<"l", "p">>,
          <<"_", "1">> >> >>

Pieces == Vocabularies[tokenizer]

TokenIds == 0..(Len(Pieces) - 1)

id_to_piece(token_id) == Pieces[token_id + 1]

UnkId == CHOOSE id \in TokenIds : id_to_piece(id) = <<"<unk>">>

\* decode of one token: the marker becomes a space, the leading space is
\* dropped; the unknown token decodes to " ? " (SentencePiece writes U+2047)
decode(token_id) ==
    IF token_id = UnkId THEN <<" ", "?", " ">>
    ELSE LET p == id_to_piece(token_id)
         IN IF Head(p) = Marker THEN Tail(p) ELSE p

\* One whitespace-free word, the marker already in front: longest piece first,
\* a character no piece starts with becomes the unknown token.
RECURSIVE EncodeWord(_)
EncodeWord(w) ==
    IF w = <<>> THEN <<>>
    ELSE LET cands == {id \in TokenIds \ {UnkId} : IsPrefix(id_to_piece(id), w)}
         IN IF cands = {}
            THEN <<UnkId>> \o EncodeWord(Tail(w))
            ELSE LET best == CHOOSE id \in cands :
                                \A o \in cands :
                                    Len(id_to_piece(o)) <= Len(id_to_piece(id))
                 IN <<best>> \o
                    EncodeWord(SubSeq(w, Len(id_to_piece(best)) + 1, Len(w)))

\* encode: whitespace separates words, every word gets the marker in front
RECURSIVE EncodeFrom(_, _)
EncodeFrom(text, word) ==
    IF text = <<>>
    THEN (IF word = <<>> THEN <<>> ELSE EncodeWord(<<Marker>> \o word))
    ELSE IF Head(text) \in Whitespace
         THEN (IF word = <<>> THEN <<>> ELSE EncodeWord(<<Marker>> \o word))
              \o EncodeFrom(Tail(text), <<>>)
         ELSE EncodeFrom(Tail(text), Append(word, Head(text)))

encode(text) == EncodeFrom(text, <<>>)

starts_new_word(token_id) == Head(id_to_piece(token_id)) = Marker

contains_letters_only_always(token_id) == TRUE
contains_letters_only(token_id) == isalpha(decode(token_id))

\* ------------------------------------------------------------------------
\* Oracle (LSTMModelWrapper.predict): percent per token id.  An oracle is a
\* table with one row per last token of the sequence; the empty sequence
\* gets the uniform distribution.
\* ------------------------------------------------------------------------
OracleRows ==
    << \* oracle 1: every probability positive
       << <<20, 20, 20, 20, 20>>,      \* after <unk>
          <<35, 10, 10, 40,  5>>,      \* after _he
          << 7, 60, 23,  5,  5>>,      \* after _sat
          <<30, 10, 50,  5,  5>>,      \* after lp
          <<30, 50, 10,  5,  5>>  >>,  \* after the last piece
       \* oracle 2: all the mass on the last piece (llo, or the digit piece)
       << << 0,  0,  0,  0, 100>>,
          << 0,  0,  0,  0, 100>>,
          << 0,  0,  0,  0, 100>>,
          << 0,  0,  0,  0, 100>>,
          << 0,  0,  0,  0, 100>>  >>,
       \* oracle 3: two continuations on top after _he; it fails on the
       \* sequences that end with lp (see PredictRaises)
       << <<20, 20, 20, 20, 20>>,
          << 5, 10,  5, 40, 40>>,
          << 5, 50, 25, 10, 10>>,
          <<30, 10, 50,  5,  5>>,
          <<10, 40, 40,  5,  5>>  >> >>

Oracles == 1..Len(OracleRows)

predict(o, token_seq) ==
    IF token_seq = <<>>
    THEN [i \in 1..Len(Pieces) |-> 100 \div Len(Pieces)]
    ELSE OracleRows[o][token_seq[Len(token_seq)] + 1]

\* predict raises instead of returning (a failure inside the network call):
\* oracle 3 does for every sequence that ends with the piece lp
PredictRaises(o, token_seq) ==
    /\ o = Len(OracleRows)
    /\ token_seq # <<>>
    /\ id_to_piece(token_seq[Len(token_seq)]) = <<"l", "p">>

\* round(-1000 * ln(p / 100)) for p = 1..100
NegLogTable ==
    <<4605, 3912, 3507, 3219, 2996, 2813, 2659, 2526, 2408, 2303,
      2207, 2120, 2040, 1966, 1897, 1833, 1772, 1715, 1661, 1609,
      1561, 1514, 1470, 1427, 1386, 1347, 1309, 1273, 1238, 1204,
      1171, 1139, 1109, 1079, 1050, 1022,  994,  968,  942,  916,
       892,  868,  844,  821,  799,  777,  755,  734,  713,  693,
       673,  654,  635,  616,  598,  580,  562,  545,  528,  511,
       494,  478,  462,  446,  431,  416,  400,  386,  371,  357,
       342,  329,  315,  301,  288,  274,  261,  248,  236,  223,
       211,  198,  186,  174,  163,  151,  139,  128,  117,  105,
        94,   83,   73,   62,   51,   41,   30,   20,   10,    0>>

\* -math.log(token_prob); math.log(0.0) raises ValueError
LogDefined(p) == p > 0
NegLog(p) == NegLogTable[p]

\* round(1000 * (penalty_value + n ** alpha / (penalty_value + 1) ** alpha))
\* for n = 1..15, penalty_value = 5 and alpha = 0.6, as Python parses it
PenaltyTable ==
    <<5341, 5517, 5660, 5784, 5896, 6000, 6097, 6188, 6275, 6359,
      6439, 6516, 6590, 6663, 6733>>

Normalise(neg_log_prob, n_tokens) == neg_log_prob * PenaltyTable[n_tokens]

\* ------------------------------------------------------------------------
\* Text normaliser
\* ------------------------------------------------------------------------
\* CLEAN_REGEX keeps a-z, the Polish letters, 0-9 and whitespace
Kept(c) == c \in Letters \/ c \in Whitespace \/ c \in {"1"}

RECURSIVE RemoveUnkept(_)
RemoveUnkept(text) ==
    IF text = <<>> THEN <<>>
    ELSE IF Kept(Head(text)) THEN <<Head(text)>> \o RemoveUnkept(Tail(text))
         ELSE RemoveUnkept(Tail(text))

\* MULTIPLE_WHITESPACE: every run of spaces and tabs becomes one space
RECURSIVE CollapseBlanks(_)
CollapseBlanks(text) ==
    IF text = <<>> THEN <<>>
    ELSE IF Head(text) \in {" ", "\t"}
         THEN IF Tail(text) # <<>> /\ Head(Tail(text)) \in {" ", "\t"}
              THEN CollapseBlanks(Tail(text))
              ELSE <<" ">> \o CollapseBlanks(Tail(text))
         ELSE <<Head(text)>> \o CollapseBlanks(Tail(text))

\* unicodedata.normalize("NFC", .) leaves the characters of the model alone
_clean_context_text(context_text) ==
    CollapseBlanks(RemoveUnkept([i \in 1..Len(context_text) |->
                                     Lower(context_text[i])]))

\* the index of the last " " of text, 0 when there is none
LastSpace(text) ==
    LET at == {i \in 1..Len(text) : text[i] = " "}
    IN IF at = {} THEN 0 ELSE CHOOSE i \in at : \A j \in at : j <= i

\* returns <<finished context, unfinished word>>
_extract_unfinished_word(context_text) ==
    IF context_text = <<>> \/ context_text[Len(context_text)] = " "
    THEN <<context_text, <<>> >>
    ELSE LET i == LastSpace(context_text)
         IN IF i = 0
            THEN << <<>>, context_text >>
            ELSE << SubSeq(context_text, 1, i - 1),
                    <<" ">> \o SubSeq(context_text, i + 1, Len(context_text)) >>

\* ------------------------------------------------------------------------
\* heapq on sequences of records ordered by neg_log_prob_normalised
\* (positions are 0-based as in heapq; heap[pos + 1] is the element at pos)
\* ------------------------------------------------------------------------
Lt(a, b) == a.neg_log_prob_normalised < b.neg_log_prob_normalised

RECURSIVE _siftdown(_, _, _, _)
_siftdown(heap, startpos, pos, newitem) ==
    IF pos > startpos /\ Lt(newitem, heap[((pos - 1) \div 2) + 1])
    THEN _siftdown([heap EXCEPT ![pos + 1] = heap[((pos - 1) \div 2) + 1]],
                   startpos, (pos - 1) \div 2, newitem)
    ELSE [heap EXCEPT ![pos + 1] = newitem]

RECURSIVE SiftUpLoop(_, _, _)
SiftUpLoop(heap, pos, newitem) ==
    LET endpos == Len(heap)
        childpos == 2 * pos + 1
        rightpos == childpos + 1
        pick == IF rightpos < endpos /\ ~Lt(heap[childpos + 1], heap[rightpos + 1])
                THEN rightpos ELSE childpos
    IN IF childpos < endpos
       THEN SiftUpLoop([heap EXCEPT ![pos + 1] = heap[pick + 1]], pick, newitem)
       ELSE <<heap, pos>>

_siftup(heap, pos) ==
    LET r == SiftUpLoop(heap, pos, heap[pos + 1])
    IN _siftdown(r[1], pos, r[2], heap[pos + 1])

heappush(heap, item) ==
    _siftdown(Append(heap, item), 0, Len(heap), item)

\* returns <<smallest element, heap without it>>
heappop(heap) ==
    LET lastelt == heap[Len(heap)]
        rest == SubSeq(heap, 1, Len(heap) - 1)
    IN IF rest = <<>> THEN <<lastelt, <<>> >>
       ELSE <<rest[1], _siftup([rest EXCEPT ![1] = lastelt], 0)>>

\* stable insertion of x into the sorted sequence s, after its equals
RECURSIVE InsertSorted(_, _)
InsertSorted(s, x) ==
    IF s = <<>> THEN <<x>>
    ELSE IF Lt(x, Head(s)) THEN <<x>> \o s
         ELSE <<Head(s)>> \o InsertSorted(Tail(s), x)

RECURSIVE SortStable(_)
SortStable(s) ==
    IF s = <<>> THEN <<>>
    ELSE InsertSorted(SortStable(SubSeq(s, 1, Len(s) - 1)), s[Len(s)])

\* heapq.nsmallest(n, items) = sorted(items)[:n]
nsmallest(n, items) ==
    LET sorted == SortStable(items)
    IN SubSeq(sorted, 1, IF n < Len(sorted) THEN n ELSE Len(sorted))

\* ------------------------------------------------------------------------
\* _get_top_tokens: sorted by probability, descending and stable, first k
\* ------------------------------------------------------------------------
RECURSIVE TopFrom(_, _, _)
TopFrom(token_probs, left, k) ==
    IF k = 0 \/ left = {} THEN <<>>
    ELSE LET best == CHOOSE i \in left :
                        \A j \in left :
                            \/ token_probs[j + 1] < token_probs[i + 1]
                            \/ (token_probs[j + 1] = token_probs[i + 1] /\ i <= j)
         IN << <<best, token_probs[best + 1]>> >> \o
            TopFrom(token_probs, left \ {best}, k - 1)

_get_top_tokens(token_probs, k) ==
    TopFrom(token_probs, 0..(Len(token_probs) - 1), k)

\* ------------------------------------------------------------------------
\* The fallback words (prepare_words_set.py, dummy_predictions.py) and
\* PredictionService._generate_predictions
\* ------------------------------------------------------------------------
\* str.upper on the characters the model uses
Upper(c) ==
    CASE c = "a" -> "A" [] c = "e" -> "E" [] c = "h" -> "H" [] c = "l" -> "L"
      [] c = "o" -> "O" [] c = "p" -> "P" [] c = "s" -> "S" [] c = "t" -> "T"
      [] OTHER -> c

upper(text) == [i \in 1..Len(text) |-> Upper(text[i])]

\* prepare_words_set.clean
clean(text) ==
    CollapseBlanks(RemoveUnkept([i \in 1..Len(text) |-> Lower(text[i])]))

\* str.split(" "): the pieces between single spaces, empty ones included
RECURSIVE SplitFrom(_, _)
SplitFrom(text, word) ==
    IF text = <<>> THEN <<word>>
    ELSE IF Head(text) = " "
         THEN <<word>> \o SplitFrom(Tail(text), <<>>)
         ELSE SplitFrom(Tail(text), Append(word, Head(text)))

split(text) == SplitFrom(text, <<>>)

get_words_set(file_text) == Range(split(clean(file_text)))

\* the texts lorem_ipsum.txt may hold
WordFiles ==
    { <<>>,
      <<"H", "e", " ", "s", "a", "t">>,
      <<"s", "a", "t", "\t", "h", "e", " ", "h", "e", "l", "p", " ", "s", "a", "t">> }

Min(a, b) == IF a < b THEN a ELSE b

\* random.sample(list(population), n): any n distinct elements in any order
sample(population, n) ==
    {s \in [1..n -> population] :
        \A i, j \in 1..n : i # j => s[i] # s[j]}

\* f"WORD{i+1}" for i in range(n)
DigitChars == <<"1", "2", "3", "4", "5", "6", "7", "8", "9">>
NumberedWords(n) == [i \in 1..n |-> <<"W", "O", "R", "D", DigitChars[i]>>]

\* line 145: how many words the engine left to be filled in
remaining_none(n_words, engine_predictions) == 0
remaining(n_words, engine_predictions) == n_words - Len(engine_predictions)

\* line 164: the size of the sample the fallback path draws
sample_size_none(n_words, words) == 0
sample_size(n_words, words) == Min(n_words, Cardinality(words))

\* lines 156-167: the lists the fallback path can return
DummyPredictions(n_words, words) ==
    IF words = {} THEN {NumberedWords(n_words)}
    ELSE sample(words, sample_size(n_words, words))

\* lines 141-150: the lists that can be made of the engine's top words
EnginePredictions(top_words_list, n_words, words) ==
    LET engine_predictions ==
            [i \in 1..Len(top_words_list) |-> upper(top_words_list[i][1])]
        padded ==
            IF Len(engine_predictions) < n_words /\ words # {}
            THEN {engine_predictions \o dummy_words :
                    dummy_words \in
                        sample(words,
                               Min(remaining(n_words, engine_predictions),
                                   Cardinality(words)))}
            ELSE {engine_predictions}
    IN {SubSeq(p, 1, Min(n_words, Len(p))) : p \in padded}

\* every list _generate_predictions can return once get_top_k_words has
\* returned top_words_list, or has raised
_generate_predictions(engine_raised, top_words_list, n_words, words) ==
    IF engine_raised THEN DummyPredictions(n_words, words)
    ELSE EnginePredictions(top_words_list, n_words, words)

\* ------------------------------------------------------------------------
\* WordPredictionBeamSearch: state of the engine and of one search session
\* ------------------------------------------------------------------------
VARIABLES
    beam_width,             \* constructor arguments of the engine
    max_word_length,
    model,                  \* which oracle the engine holds
    inference_count,
    context_text,           \* arguments of the current get_top_k_words call
    k,
    context_tokens,
    unfinished_word,
    beam,
    completed_words,
    completed_words_texts,
    prob_cache,
    explored_prefixes,
    beam_prefixes,
    iteration,
    results,                \* the returned list of <<text, probability, n_tokens>>
    pc,                     \* "idle", "loop", "done", "raised"
    exception,              \* what a raised call raised: "ValueError" from
                            \* math.log, "OracleError" from predict, "" if none
    available_words,        \* dummy_predictions.available_words
    predictions,            \* what _generate_predictions returned for the call
    generated,              \* history: "engine" or "fallback" once it returned,
                            \* "" before
    first_call,             \* history: arguments and outcome of the first call
    repeated,               \* history: the current call repeats the first call
    predict_calls           \* history: the token sequences self.model.predict
                            \* was invoked with during the call, in order

searchVars == <<tokenizer, beam_width, max_word_length, model, inference_count,
                context_text, k, context_tokens, unfinished_word, beam,
                completed_words, completed_words_texts, prob_cache,
                explored_prefixes, beam_prefixes, iteration, results, pc,
                exception, available_words, predictions, generated,
                first_call, repeated, predict_calls>>

\* the raw texts a call is made with
Contexts ==
    { <<>>,
      <<"s", "a", "t", " ">>,
      <<"h", "e">>,
      <<"s", "a", "t", " ", "h", "e">>,
      <<"H", "e", "!", "\t", " ">>,
      <<"h", "e", "\n">>,
      <<"s", "a", "t">>,
      <<"\n">> }

BeamItem(norm, raw, toks, txt) ==
    [neg_log_prob_normalised |-> norm, neg_log_prob |-> raw,
     tokens |-> toks, text |-> txt]

\* CompletedWord.probability is exp(-prob_neg_log / 1000): a smaller
\* prob_neg_log is a larger probability
CompletedWordCertain(norm, toks, txt, raw) ==
    [neg_log_prob_normalised |-> norm, tokens |-> toks, text |-> txt,
     prob_neg_log |-> 0]
CompletedWord(norm, toks, txt, raw) ==
    [neg_log_prob_normalised |-> norm, tokens |-> toks, text |-> txt,
     prob_neg_log |-> raw]

\* `if word_text:` of _create_complete_word (line 327)
HasTextAlways(word_text) == TRUE
HasText(word_text) == word_text # <<>>

\* <<the word>>, or <<>> for None
_create_complete_word(current_prefix) ==
    LET word_text == strip(current_prefix.text)
    IN IF HasText(word_text)
       THEN <<CompletedWord(current_prefix.neg_log_prob_normalised,
                            current_prefix.tokens, word_text,
                            current_prefix.neg_log_prob)>>
       ELSE <<>>

_create_new_beam_prefix(current_prefix, token_id, token_prob) ==
    LET new_tokens == Append(current_prefix.tokens, token_id)
        new_text == current_prefix.text \o decode(token_id)
        new_log_prob == current_prefix.neg_log_prob + NegLog(token_prob)
    IN BeamItem(Normalise(new_log_prob, Len(new_tokens)), new_log_prob,
                new_tokens, new_text)

\* lines 239-249: the one-token candidate a word-start token begins
NewWordItemCertain(token_id, token_prob) ==
    BeamItem(Normalise(0, 1), 0, <<token_id>>, lstrip(decode(token_id)))
NewWordItem(token_id, token_prob) ==
    BeamItem(Normalise(NegLog(token_prob), 1), NegLog(token_prob),
             <<token_id>>, lstrip(decode(token_id)))

\* `if unfinished_word:` of the expansion loop (line 207)
CompletesUnfinishedWordNever(uw) == FALSE
CompletesUnfinishedWord(uw) == uw # <<>>

\* `completed_word.text not in completed_words_texts`
IsNewTextDup(text, texts) == TRUE
IsNewText(text, texts) == text \notin Range(texts)

\* the loop state the expansion of one candidate threads through the tokens
Promote(st, current) ==
    LET cw == _create_complete_word(current)
    IN IF cw # <<>> /\ IsNewText(cw[1].text, st.completed_words_texts)
       THEN [st EXCEPT !.completed_words = heappush(@, cw[1]),
                       !.completed_words_texts = Append(@, cw[1].text)]
       ELSE st

\* `new_cache_key not in explored_prefixes` (lines 253 and 265)
NotExploredAlways(key, explored) == TRUE
NotExplored(key, explored) == key \notin explored

PushItem(st, new_item) ==
    LET new_cache_key == context_tokens \o new_item.tokens
    IN IF new_cache_key \notin st.beam_prefixes
          /\ NotExplored(new_cache_key, st.explored_prefixes)
       THEN [st EXCEPT !.beam = heappush(@, new_item),
                       !.beam_prefixes = @ \cup {new_cache_key}]
       ELSE st

\* the body of `for token_id, token_prob in top_next_tokens` for one token
ExpandToken(st, current, token_id, token_prob) ==
    IF ~contains_letters_only(token_id) THEN st
    ELSE IF starts_new_word(token_id)
    THEN IF CompletesUnfinishedWord(unfinished_word)
         THEN Promote(st, current)
         ELSE LET st1 == IF strip(current.text) # <<>>
                         THEN Promote(st, current) ELSE st
              IN IF LogDefined(token_prob)
                 THEN PushItem(st1, NewWordItem(token_id, token_prob))
                 ELSE [st1 EXCEPT !.raised = TRUE]
    ELSE IF LogDefined(token_prob)
         THEN PushItem(st, _create_new_beam_prefix(current, token_id, token_prob))
         ELSE [st EXCEPT !.raised = TRUE]

RECURSIVE ExpandTokens(_, _, _)
ExpandTokens(st, current, top_next_tokens) ==
    IF top_next_tokens = <<>> \/ st.raised THEN st
    ELSE ExpandTokens(ExpandToken(st, current, Head(top_next_tokens)[1],
                                  Head(top_next_tokens)[2]),
                      current, Tail(top_next_tokens))

max_iterations == k * beam_width * 10

\* the guard of the while loop (line 146)
LoopContinuesPastK ==
    beam # <<>> /\ Len(completed_words) <= k /\ iteration < max_iterations
LoopContinues ==
    beam # <<>> /\ Len(completed_words) < k /\ iteration < max_iterations

\* the pruning step, line 274
PruneBeamKeepAll(items) == items
PruneBeam(items) == nsmallest(beam_width, items)

\* heapq.nsmallest(k, completed_words), line 287
top_words_largest ==
    LET s == nsmallest(Len(completed_words), completed_words)
        n == IF k < Len(s) THEN k ELSE Len(s)
    IN [i \in 1..n |-> s[Len(s) + 1 - i]]
top_words == nsmallest(k, completed_words)

\* session state a new call starts from (lines 120-130)
StaleExploredPrefixes == explored_prefixes
NewExploredPrefixes == {}

\* get_top_k_words up to the loop (lines 98-143)
Call(ctx, kk) ==
    /\ pc \in {"idle", "done", "raised"}
    /\ LET parts == _extract_unfinished_word(_clean_context_text(ctx))
           ctoks == encode(parts[1])
           uw == parts[2]
       IN /\ context_tokens' = ctoks
          /\ unfinished_word' = uw
          /\ beam' = IF uw # <<>>
                     THEN <<BeamItem(0, 0, encode(uw), uw)>>
                     ELSE <<BeamItem(0, 0, <<>>, <<>>)>>
          /\ beam_prefixes' = IF uw # <<>> THEN {ctoks \o encode(uw)}
                              ELSE {ctoks}
    /\ inference_count' = 0
    /\ context_text' = ctx
    /\ k' = kk
    /\ completed_words' = <<>>
    /\ completed_words_texts' = <<>>
    /\ prob_cache' = <<>>
    /\ explored_prefixes' = NewExploredPrefixes
    /\ iteration' = 0
    /\ results' = <<>>
    /\ pc' = "loop"
    /\ exception' = ""
    /\ predictions' = <<>>
    /\ generated' = ""
    /\ predict_calls' = <<>>
    /\ repeated' = /\ first_call # <<>>
                    /\ first_call[1].context_text = ctx
                    /\ first_call[1].k = kk
    /\ UNCHANGED <<tokenizer, beam_width, max_word_length, model, available_words,
                   first_call>>

\* one iteration of the while loop (lines 146-275)
SearchIteration ==
    /\ pc = "loop"
    /\ LoopContinues
    /\ iteration' = iteration + 1
    /\ LET popped == heappop(beam)
           current == popped[1]
           rest == popped[2]
           cache_key == context_tokens \o current.tokens
           cached == cache_key \in DOMAIN prob_cache
           predict_raises == ~cached /\ PredictRaises(model, cache_key)
           top_next_tokens ==
               IF cached THEN prob_cache[cache_key]
               ELSE _get_top_tokens(predict(model, cache_key), beam_width)
           st0 == [beam |-> rest,
                   beam_prefixes |-> beam_prefixes \ {cache_key},
                   explored_prefixes |-> explored_prefixes \cup {cache_key},
                   completed_words |-> completed_words,
                   completed_words_texts |-> completed_words_texts,
                   raised |-> FALSE]
           st == ExpandTokens(st0, current, top_next_tokens)
       IN IF Len(current.tokens) >= max_word_length
             \/ cache_key \in explored_prefixes
          THEN \* pruned, or already explored: continue
               /\ beam' = rest
               /\ UNCHANGED <<inference_count, completed_words,
                              completed_words_texts, prob_cache,
                              explored_prefixes, beam_prefixes, pc,
                              exception, predict_calls>>
          ELSE IF predict_raises
          THEN \* line 187 raises: nothing in get_top_k_words catches it
               /\ beam' = rest
               /\ explored_prefixes' = st0.explored_prefixes
               /\ beam_prefixes' = st0.beam_prefixes
               /\ pc' = "raised"
               /\ exception' = "OracleError"
               /\ predict_calls' = Append(predict_calls, cache_key)
               /\ UNCHANGED <<inference_count, completed_words,
                              completed_words_texts, prob_cache>>
          ELSE /\ explored_prefixes' = st.explored_prefixes
               /\ predict_calls' =
                      IF cached THEN predict_calls
                      ELSE Append(predict_calls, cache_key)
               /\ inference_count' =
                      IF cached THEN inference_count ELSE inference_count + 1
               /\ prob_cache' =
                      IF cached THEN prob_cache
                      ELSE [x \in DOMAIN prob_cache \cup {cache_key} |->
                               IF x = cache_key THEN top_next_tokens
                               ELSE prob_cache[x]]
               /\ beam_prefixes' = st.beam_prefixes
               /\ completed_words' = st.completed_words
               /\ completed_words_texts' = st.completed_words_texts
               /\ IF st.raised
                  THEN /\ beam' = st.beam
                       /\ pc' = "raised"
                       /\ exception' = "ValueError"
                  ELSE /\ beam' = PruneBeam(st.beam)
                       /\ pc' = "loop"
                       /\ exception' = ""
    /\ UNCHANGED <<tokenizer, beam_width, max_word_length, model, context_text, k,
                   context_tokens, unfinished_word, results, available_words,
                   predictions, generated, repeated>>
    /\ first_call' = IF pc' = "raised" /\ first_call = <<>>
                     THEN <<[context_text |-> context_text, k |-> k,
                             outcome |-> "raised", results |-> <<>>,
                             inference_count |-> inference_count']>>
                     ELSE first_call

\* the loop has ended: lines 277-294
Return ==
    /\ pc = "loop"
    /\ ~LoopContinues
    /\ results' = [i \in 1..Len(top_words) |->
                      <<top_words[i].text, top_words[i].prob_neg_log,
                        Len(top_words[i].tokens)>>]
    /\ pc' = "done"
    /\ first_call' = IF first_call = <<>>
                     THEN <<[context_text |-> context_text, k |-> k,
                             outcome |-> "done", results |-> results',
                             inference_count |-> inference_count]>>
                     ELSE first_call
    /\ UNCHANGED <<tokenizer, beam_width, max_word_length, model, inference_count,
                   context_text, k, context_tokens, unfinished_word, beam,
                   completed_words, completed_words_texts, prob_cache,
                   explored_prefixes, beam_prefixes, iteration, exception,
                   available_words, predictions, generated, repeated,
                   predict_calls>>

\* _generate_predictions after the call of the engine has ended: lines
\* 141-150 when it returned, lines 151-167 when it raised
GeneratePredictions ==
    /\ pc \in {"done", "raised"}
    /\ generated = ""
    /\ predictions' \in _generate_predictions(pc = "raised", results, k,
                                              available_words)
    /\ generated' = IF pc = "raised" THEN "fallback" ELSE "engine"
    /\ UNCHANGED <<tokenizer, beam_width, max_word_length, model, inference_count,
                   context_text, k, context_tokens, unfinished_word, beam,
                   completed_words, completed_words_texts, prob_cache,
                   explored_prefixes, beam_prefixes, iteration, results, pc,
                   exception, available_words, first_call, repeated,
                   predict_calls>>

\* the engine as constructed around the tokenizer with the given vocabulary
SearchInit(vocabulary) ==
    /\ tokenizer = vocabulary
    /\ beam_width \in 1..MaxBeamWidth
    /\ max_word_length \in {ShortWordLength, LongWordLength}
    /\ model \in Oracles
    /\ inference_count = 0
    /\ context_text = <<>>
    /\ k = 1
    /\ context_tokens = <<>>
    /\ unfinished_word = <<>>
    /\ beam = <<>>
    /\ completed_words = <<>>
    /\ completed_words_texts = <<>>
    /\ prob_cache = <<>>
    /\ explored_prefixes = {}
    /\ beam_prefixes = {}
    /\ iteration = 0
    /\ results = <<>>
    /\ pc = "idle"
    /\ exception = ""
    /\ available_words \in {get_words_set(f) : f \in WordFiles}
    /\ predictions = <<>>
    /\ generated = ""
    /\ first_call = <<>>
    /\ repeated = FALSE
    /\ predict_calls = <<>>

\* ------------------------------------------------------------------------
\* PredictionService: the caller's thread, the request queue and the worker
\* threads start() creates
\* ------------------------------------------------------------------------
VARIABLES
    _running,
    _request_queue,     \* requests (numbered from 1 as submitted) and stop signals
    _worker_thread,     \* the thread start() created last, 0 for None
    _callback,          \* whether set_callback registered a callback
    wpc,                \* where each worker thread is: "unborn", "check",
                        \* "get", "gen", "cb", "exited"
    wreq,               \* the request a worker thread is serving, 0 for none
    mpc,                \* where the caller is: "idle", "stop_put",
                        \* "stop_join", "rp_clear" (before the test of
                        \* line 86), "rp_get" (before line 88), "rp_put"
    submitted,          \* number of request_predictions calls so far
    delivered,          \* history: <<request, thread>> for every callback call
    dropped,            \* history: requests request_predictions took back
    fault               \* history: per thread, the last request it caught an
                        \* exception for, 0 for none

svcVars == <<_running, _request_queue, _worker_thread, _callback, wpc, wreq,
             mpc, submitted, delivered, dropped, fault>>

Threads == 1..MaxThreads

\* the None that stop() puts into the queue
StopSignal == 0

Alive(t) == wpc[t] \notin {"unborn", "exited"}

\* the thread of the caller of start, stop and request_predictions (the UI
\* thread); the worker threads are numbered from 1
MainThread == 0

\* the thread self._callback(predictions) runs on: line 116 is in _worker
CallbackContextCaller(t) == MainThread
CallbackContext(t) == t

\* start(), lines 51-58
Start ==
    /\ mpc = "idle"
    /\ IF _running
       THEN UNCHANGED <<_running, _worker_thread, wpc>>
       ELSE \E t \in Threads :
               /\ wpc[t] = "unborn"
               /\ \A u \in Threads : u < t => wpc[u] # "unborn"
               /\ _running' = TRUE
               /\ _worker_thread' = t
               /\ wpc' = [wpc EXCEPT ![t] = "check"]
    /\ UNCHANGED <<_request_queue, _callback, wreq, mpc, submitted, delivered,
                   dropped, fault>>

\* stop(), line 62
StopBegin ==
    /\ mpc = "idle"
    /\ Len(_request_queue) < MaxQueue
    /\ _running' = FALSE
    /\ mpc' = IF _worker_thread # 0 THEN "stop_put" ELSE "idle"
    /\ UNCHANGED <<_request_queue, _worker_thread, _callback, wpc, wreq,
                   submitted, delivered, dropped, fault>>

\* stop(), line 64: the stop signal goes to the end of the queue
StopPut ==
    /\ mpc = "stop_put"
    /\ _request_queue' = Append(_request_queue, StopSignal)
    /\ mpc' = "stop_join"
    /\ UNCHANGED <<_running, _worker_thread, _callback, wpc, wreq, submitted,
                   delivered, dropped, fault>>

\* stop(), line 65: join returns when the thread has ended, or after one
\* second while the thread is still busy with a request
StopJoin ==
    /\ mpc = "stop_join"
    /\ wpc[_worker_thread] \in {"exited", "gen", "cb"}
    /\ mpc' = "idle"
    /\ UNCHANGED <<_running, _request_queue, _worker_thread, _callback, wpc,
                   wreq, submitted, delivered, dropped, fault>>

\* set_callback, line 73
SetCallback ==
    /\ mpc = "idle"
    /\ ~_callback
    /\ _callback' = TRUE
    /\ UNCHANGED <<_running, _request_queue, _worker_thread, wpc, wreq, mpc,
                   submitted, delivered, dropped, fault>>

\* `while not self._request_queue.empty()` of request_predictions (line 86)
HasPendingNever(queue) == FALSE
HasPending(queue) == queue # <<>>

\* request_predictions is entered
RequestBegin ==
    /\ mpc = "idle"
    /\ submitted < MaxRequests
    /\ submitted' = submitted + 1
    /\ mpc' = "rp_clear"
    /\ UNCHANGED <<_running, _request_queue, _worker_thread, _callback, wpc,
                   wreq, delivered, dropped, fault>>

\* the caller is inside request_predictions
InRequest == mpc \in {"rp_clear", "rp_get", "rp_put"}

\* the test of the clearing loop, line 86: empty() takes the queue's mutex
\* and releases it again
RequestTest ==
    /\ mpc = "rp_clear"
    /\ mpc' = IF HasPending(_request_queue) THEN "rp_get" ELSE "rp_put"
    /\ UNCHANGED <<_running, _request_queue, _worker_thread, _callback, wpc,
                   wreq, submitted, delivered, dropped, fault>>

\* get_nowait() of the clearing loop, lines 87-90: the head is taken back,
\* or a worker has emptied the queue since the test, queue.Empty is raised
\* and `except: break` leaves the loop
RequestClear ==
    /\ mpc = "rp_get"
    /\ IF _request_queue # <<>>
       THEN /\ _request_queue' = Tail(_request_queue)
            /\ dropped' = IF Head(_request_queue) = StopSignal THEN dropped
                          ELSE dropped \cup {Head(_request_queue)}
            /\ mpc' = "rp_clear"
       ELSE /\ mpc' = "rp_put"
            /\ UNCHANGED <<_request_queue, dropped>>
    /\ UNCHANGED <<_running, _worker_thread, _callback, wpc, wreq,
                   submitted, delivered, fault>>

\* the put of the new request, lines 93-96, and the return
RequestPut ==
    /\ mpc = "rp_put"
    /\ _request_queue' = Append(_request_queue, submitted)
    /\ mpc' = "idle"
    /\ UNCHANGED <<_running, _worker_thread, _callback, wpc, wreq, submitted,
                   delivered, dropped, fault>>

\* `except Exception: continue` of the worker loop (lines 118-120)
OnExceptionExit == "exited"
OnException == "check"

\* `while self._running`, line 100
WorkerCheck(t) ==
    /\ wpc[t] = "check"
    /\ wpc' = [wpc EXCEPT ![t] = IF _running THEN "get" ELSE "exited"]
    /\ UNCHANGED <<_running, _request_queue, _worker_thread, _callback, wreq,
                   mpc, submitted, delivered, dropped, fault>>

\* get(timeout=0.1) returns the head of the queue, lines 103-106
WorkerDequeue(t) ==
    /\ wpc[t] = "get"
    /\ _request_queue # <<>>
    /\ _request_queue' = Tail(_request_queue)
    /\ IF Head(_request_queue) = StopSignal
       THEN wpc' = [wpc EXCEPT ![t] = "exited"] /\ UNCHANGED wreq
       ELSE /\ wpc' = [wpc EXCEPT ![t] = "gen"]
            /\ wreq' = [wreq EXCEPT ![t] = Head(_request_queue)]
    /\ UNCHANGED <<_running, _worker_thread, _callback, mpc, submitted,
                   delivered, dropped, fault>>

\* get(timeout=0.1) raises queue.Empty
WorkerTimeout(t) ==
    /\ wpc[t] = "get"
    /\ _request_queue = <<>>
    /\ wpc' = [wpc EXCEPT ![t] = OnException]
    /\ UNCHANGED <<_running, _request_queue, _worker_thread, _callback, wreq,
                   mpc, submitted, delivered, dropped, fault>>

\* _generate_predictions, lines 122-167: the engine returns its words, or it
\* raises and the except clause of line 151 falls back to the dummy words
WorkerGenerate(t) ==
    /\ wpc[t] = "gen"
    /\ \E engine_raises \in BOOLEAN :
          fault' = IF engine_raises THEN [fault EXCEPT ![t] = wreq[t]]
                   ELSE fault
    /\ wpc' = [wpc EXCEPT ![t] = "cb"]
    /\ UNCHANGED <<_running, _request_queue, _worker_thread, _callback, wreq,
                   mpc, submitted, delivered, dropped>>

\* lines 115-120: the callback is called, and may raise
WorkerCallback(t) ==
    /\ wpc[t] = "cb"
    /\ IF _callback
       THEN /\ delivered' = delivered \cup {<<wreq[t], CallbackContext(t)>>}
            /\ \E callback_raises \in BOOLEAN :
                  IF callback_raises
                  THEN /\ fault' = [fault EXCEPT ![t] = wreq[t]]
                       /\ wpc' = [wpc EXCEPT ![t] = OnException]
                  ELSE /\ fault' = fault
                       /\ wpc' = [wpc EXCEPT ![t] = "check"]
       ELSE /\ wpc' = [wpc EXCEPT ![t] = "check"]
            /\ UNCHANGED <<delivered, dropped, fault>>
    /\ wreq' = [wreq EXCEPT ![t] = 0]
    /\ UNCHANGED <<_running, _request_queue, _worker_thread, _callback, mpc,
                   submitted, dropped>>

ServiceInit ==
    /\ _running = FALSE
    /\ _request_queue = <<>>
    /\ _worker_thread = 0
    /\ _callback = FALSE
    /\ wpc = [t \in Threads |-> "unborn"]
    /\ wreq = [t \in Threads |-> 0]
    /\ mpc = "idle"
    /\ submitted = 0
    /\ delivered = {}
    /\ dropped = {}
    /\ fault = [t \in Threads |-> 0]

\* ------------------------------------------------------------------------
\* The text normaliser on its own: one raw text is cleaned, then split into
\* finished context and unfinished word (lines 102-104 of get_top_k_words)
\* ------------------------------------------------------------------------
VARIABLES
    norm_raw,           \* the context_text argument
    norm_cleaned,       \* what _clean_context_text returned
    norm_context,       \* the two values _extract_unfinished_word returned
    norm_unfinished,
    norm_pc             \* "raw", "cleaned", "extracted"

normVars == <<norm_raw, norm_cleaned, norm_context, norm_unfinished, norm_pc>>

MaxTextLen == 3

NormChars == {"h", "H", "!", " ", "\t", "\n"}

RawTexts == UNION {[1..n -> NormChars] : n \in 0..MaxTextLen}

\* line 102
CleanText ==
    /\ norm_pc = "raw"
    /\ norm_cleaned' = _clean_context_text(norm_raw)
    /\ norm_pc' = "cleaned"
    /\ UNCHANGED <<norm_raw, norm_context, norm_unfinished>>

\* lines 103-104
ExtractWord ==
    /\ norm_pc = "cleaned"
    /\ norm_context' = _extract_unfinished_word(norm_cleaned)[1]
    /\ norm_unfinished' = _extract_unfinished_word(norm_cleaned)[2]
    /\ norm_pc' = "extracted"
    /\ UNCHANGED <<norm_raw, norm_cleaned>>

NormInit ==
    /\ norm_raw \in RawTexts
    /\ norm_cleaned = <<>>
    /\ norm_context = <<>>
    /\ norm_unfinished = <<>>
    /\ norm_pc = "raw"

\* ------------------------------------------------------------------------
\* The context of a request: PredictionService._generate_predictions up to
\* the call of the engine (line 135)
\* ------------------------------------------------------------------------
VARIABLES
    req_text,           \* the text of the request
    req_cursor,         \* its cursor_position
    req_context,        \* the context handed to get_top_k_words
    req_pc              \* "queued", "searched"

reqVars == <<req_text, req_cursor, req_context, req_pc>>

MaxRequestLen == 3

RequestChars == {"h", "e", " "}

RequestTexts == UNION {[1..n -> RequestChars] : n \in 0..MaxRequestLen}

\* text[:cursor_position] for 0 <= cursor_position <= len(text)
Slice(text, cursor_position) == SubSeq(text, 1, cursor_position)

\* line 135
Context(text, cursor_position) ==
    IF cursor_position > 0 THEN Slice(text, cursor_position) ELSE text

\* the worker hands the request to the engine
HandContext ==
    /\ req_pc = "queued"
    /\ req_context' = Context(req_text, req_cursor)
    /\ req_pc' = "searched"
    /\ UNCHANGED <<req_text, req_cursor>>

\* a request as PisakDisplay._emit_text_changed makes it: the cursor is
\* within the text
RequestInit ==
    /\ req_text \in RequestTexts
    /\ req_cursor \in 0..Len(req_text)
    /\ req_context = <<>>
    /\ req_pc = "queued"

\* no request, in the specifications that are not about the context
NoRequest == RequestInit /\ req_text = <<>>

\* ------------------------------------------------------------------------
\* ScanningManager (scanning/manager.py) over a small tree of scannable
\* items: the main row 1 holds the keyboard 2 and the button 3, the keyboard
\* holds the buttons 4 and 5.  1 and 2 are container widgets, 3 to 5 are
\* PisakButtons.  0 stands for None and for a widget that is not a
\* PisakScannableItem (the window the main row sits in).
\* ------------------------------------------------------------------------
VARIABLES
    is_scanning,        \* ScanningState.is_scanning
    current_item,       \* ScanningState.current_item, 0 for None
    timer_active,       \* self._timer.is_active()
    iter_counter,       \* per item, PisakScannableItem._iter_counter
    iter_position,      \* per item, how many children _iter_scannable_items
                        \* has handed out
    focus_widget,       \* the widget that has the focus, 0 for none
    scanning_strategy,  \* per item: "none", "parent" (BackToParentStrategy),
                        \* "top" (TopStrategy) or "back2"
                        \* (BackNLevelsStrategy with its default n = 2)
    max_loop_number,    \* ScanningState.max_loop_number
    emitted,            \* history: the events the last operation emitted
    last_emitted,       \* history: the last SCANNING_STARTED or
                        \* SCANNING_STOPPED emitted before it, "" if none
    focused_log,        \* history: the children focused since the scan of
                        \* current_item began
    scan_op,            \* history: the last operation
    scan_raised         \* history: the last operation ended in an exception

scanVars == <<is_scanning, current_item, timer_active, iter_counter,
              iter_position, focus_widget, scanning_strategy,
              max_loop_number, emitted, last_emitted, focused_log, scan_op,
              scan_raised>>

MaxLoops == 2

ScanItems == 1..5

\* scannable_items of every item
Children == << <<2, 3>>, <<4, 5>>, <<>>, <<>>, <<>> >>

\* parentWidget() of every item
ParentWidget == <<0, 1, 1, 2, 2>>

\* the items that are PisakButtons; the others are PisakContainerWidgets
Buttons == {3, 4, 5}

Strategies == {"none", "parent", "top", "back2"}

\* isinstance(target, PisakScannableItem)
IsScannableItem(target) == target \in ScanItems

\* item.parentWidget(), for an item or for the window
parentWidget(item) == IF item \in ScanItems THEN ParentWidget[item] ELSE 0

\* strategy.reset_scan(item), strategies.py
reset_scan(strategy, item) ==
    IF strategy = "top" THEN item
    ELSE IF strategy = "back2" THEN parentWidget(parentWidget(item))
    ELSE parentWidget(item)

\* reset_highlight_self of an item raises: the one of the containers
\* (widgets/containers.py lines 52-59) reads self._scannable_items, an
\* attribute no container has (PisakScannableItem.__init__ sets
\* _current_scannable_items), so it ends in AttributeError; the one of the
\* buttons (widgets/buttons.py lines 93-94) does not
reset_highlight_self_raises(item) == item \notin Buttons

\* the state of the manager and of the items, as the methods pass it on;
\* raised says that the method was left by an exception
ScanState ==
    [is_scanning |-> is_scanning, current_item |-> current_item,
     timer_active |-> timer_active, iter_counter |-> iter_counter,
     iter_position |-> iter_position, focus_widget |-> focus_widget,
     emitted |-> <<>>, focused_log |-> focused_log, raised |-> FALSE]

emit_scan_event(s, type) == [s EXCEPT !.emitted = Append(@, type)]

\* stop_scanning, lines 76-92: the timer is stopped and the counter reset
\* before reset_highlight_self, the state is cleared and SCANNING_STOPPED
\* emitted after it
stop_scanning(s) ==
    IF ~s.is_scanning THEN s
    ELSE LET s1 == [s EXCEPT !.timer_active = FALSE,
                             !.iter_counter =
                                 IF s.current_item # 0
                                 THEN [@ EXCEPT ![s.current_item] = 0]
                                 ELSE @]
         IN IF s.current_item # 0
               /\ reset_highlight_self_raises(s.current_item)
            THEN [s1 EXCEPT !.raised = TRUE]
            ELSE emit_scan_event([s1 EXCEPT !.is_scanning = FALSE,
                                            !.current_item = 0],
                                 "SCANNING_STOPPED")

\* _focus_next_item, lines 195-203, with PisakScannableItem.__next__,
\* scannable.py lines 35-41: the next child, or the first one again when the
\* iterator is exhausted; an item without children recurses until
\* RecursionError
_focus_next_item(s) ==
    IF ~s.is_scanning \/ s.current_item = 0 THEN s
    ELSE LET item == s.current_item
             n == Len(Children[item])
             position == IF s.iter_position[item] < n
                         THEN s.iter_position[item] ELSE 0
         IN IF n = 0
            THEN [s EXCEPT !.iter_position = [@ EXCEPT ![item] = 0],
                           !.raised = TRUE]
            ELSE [s EXCEPT !.iter_position = [@ EXCEPT ![item] = position + 1],
                           !.iter_counter = [@ EXCEPT ![item] = @ + 1],
                           !.focus_widget = Children[item][position + 1],
                           !.focused_log =
                               Append(@, Children[item][position + 1])]

\* `if self._scanning_state.is_scanning: self.stop_scanning()` (line 57)
StopsOldScan(s) == s.is_scanning

\* start_scanning, lines 54-74
start_scanning(s, item) ==
    LET s1 == IF StopsOldScan(s) THEN stop_scanning(s) ELSE s
        s2 == [s1 EXCEPT !.timer_active = TRUE,
                         !.is_scanning = TRUE,
                         !.current_item = item,
                         !.iter_position = [@ EXCEPT ![item] = 0],
                         !.focused_log = <<>>]
    IN IF s1.raised THEN s1
       ELSE _focus_next_item(emit_scan_event(s2, "SCANNING_STARTED"))

\* _reset_scanning, lines 205-222
_reset_scanning(s) ==
    IF ~s.is_scanning \/ s.current_item = 0 THEN s
    ELSE LET strategy == scanning_strategy[s.current_item]
             next_target == reset_scan(strategy, s.current_item)
             stopped == stop_scanning(s)
         IN IF strategy # "none"
            THEN IF IsScannableItem(next_target)
                 THEN start_scanning(s, next_target)
                 ELSE IF stopped.raised THEN stopped
                      ELSE emit_scan_event(stopped, "SCANNING_RESET")
            ELSE stopped

\* the loop-end test of _on_timer_timeout (line 189)
LoopsCompleted(counter, n) == counter >= max_loop_number * n

\* _on_timer_timeout, lines 168-193
_on_timer_timeout(s) ==
    IF ~s.is_scanning \/ s.current_item = 0 THEN s
    ELSE IF LoopsCompleted(s.iter_counter[s.current_item],
                           Len(Children[s.current_item]))
         THEN _reset_scanning(s)
         ELSE _focus_next_item(s)

\* emit_event catches what a handler raises (emitters.py lines 34-38): the
\* state is as the handler left it, the caller goes on
swallowed(s) == [s EXCEPT !.raised = FALSE]

\* what the handlers of BUTTON_CLICKED do to the scan: nothing, stop it (the
\* read button, action_buttons_column_component.py line 264) or switch to
\* another keyboard (stacked_widgets.py lines 95-131)
HandlerEffects == {"none", "stop", "switch"}

\* StackedWidgetObserver.handle_event for ITEMS_SWITCHED, stacked_widgets.py
\* lines 89-131, new_keyboard an item with scannable children: the old
\* keyboard's iterator is dropped and its counter reset, the scan is stopped
\* and a scan of the new keyboard is started; when no scan is active line 117
\* reads scannable_items, which line 116 did not assign
handle_event(s, new_keyboard) ==
    LET old == s.current_item
        s2 == IF old # 0
              THEN [s EXCEPT !.iter_counter = [@ EXCEPT ![old] = 0],
                             !.iter_position = [@ EXCEPT ![old] = 0]]
              ELSE s
        s3 == stop_scanning(s2)
        s4 == [s3 EXCEPT !.iter_counter = [@ EXCEPT ![new_keyboard] = 0],
                         !.iter_position = [@ EXCEPT ![new_keyboard] = 0]]
    IN IF ~s.is_scanning THEN [s EXCEPT !.raised = TRUE]
       ELSE IF s3.raised THEN s3
       ELSE IF old # new_keyboard THEN start_scanning(s4, new_keyboard)
       ELSE s3

button_clicked(s, effect) ==
    LET s1 == emit_scan_event(s, "BUTTON_CLICKED")
        others == {i \in ScanItems :
                       Len(Children[i]) > 0 /\ i # s1.current_item}
        new == CHOOSE i \in others : \A j \in others : i <= j
    IN IF effect = "stop" THEN swallowed(stop_scanning(s1))
       ELSE IF effect = "switch" /\ others # {}
       THEN swallowed(handle_event(s1, new))
       ELSE s1

\* _handle_item_activation, lines 122-166
_handle_item_activation(s, activated_item, parent_item, effect) ==
    LET s1 == IF activated_item \in Buttons
              THEN button_clicked(s, effect) ELSE s
        s2 == stop_scanning(s1)
        strategy == scanning_strategy[parent_item]
        next_target == reset_scan(strategy, parent_item)
    IN IF activated_item \in Buttons /\ s1.is_scanning
          /\ s1.current_item # parent_item
       THEN s1
       ELSE IF s2.raised THEN s2
       ELSE IF Len(Children[activated_item]) > 0
       THEN start_scanning(s2, activated_item)
       ELSE IF strategy # "none"
       THEN IF IsScannableItem(next_target)
            THEN start_scanning(s2, next_target)
            ELSE emit_scan_event(s2, "SCANNING_RESET")
       ELSE emit_scan_event(s2, "SCANNING_RESET")

\* activate_current_item, lines 94-120
activate_current_item(s, effect) ==
    IF ~s.is_scanning \/ s.current_item = 0 THEN s
    ELSE LET item == s.current_item
             focused_widget == s.focus_widget
         IN IF focused_widget # 0 /\ focused_widget \in Range(Children[item])
            THEN _handle_item_activation(
                     emit_scan_event(s, "ITEM_ACTIVATED"),
                     focused_widget, item, effect)
            ELSE _handle_item_activation(
                     emit_scan_event(s, "ITEM_ACTIVATED"), item, item, effect)

\* the SCANNING_STARTED and SCANNING_STOPPED events of a list of events
RECURSIVE StartStopEvents(_)
StartStopEvents(events) ==
    IF events = <<>> THEN <<>>
    ELSE IF Head(events) \in {"SCANNING_STARTED", "SCANNING_STOPPED"}
         THEN <<Head(events)>> \o StartStopEvents(Tail(events))
         ELSE StartStopEvents(Tail(events))

\* an operation has run: the manager and the items take the state it left
ScanStep(s, op) ==
    /\ is_scanning' = s.is_scanning
    /\ current_item' = s.current_item
    /\ timer_active' = s.timer_active
    /\ iter_counter' = s.iter_counter
    /\ iter_position' = s.iter_position
    /\ focus_widget' = s.focus_widget
    /\ focused_log' = s.focused_log
    /\ emitted' = s.emitted
    /\ last_emitted' =
           LET before == StartStopEvents(emitted)
           IN IF before = <<>> THEN last_emitted ELSE before[Len(before)]
    /\ scan_op' = op
    /\ scan_raised' = s.raised
    /\ UNCHANGED <<scanning_strategy, max_loop_number>>

\* start_scanning called from outside: the callers pass an item that has
\* scannable children (speller/module.py line 128,
\* action_buttons_column_component.py line 216)
StartScanning(item) ==
    /\ Len(Children[item]) > 0
    /\ ScanStep(start_scanning(ScanState, item), "start_scanning")

StopScanning == ScanStep(stop_scanning(ScanState), "stop_scanning")

ActivateCurrentItem(effect) ==
    ScanStep(activate_current_item(ScanState, effect), "activate_current_item")

\* the QTimer fires only while it is active; the timeout reaches
\* _on_timer_timeout through the emit_event of the TimerAdapter, which
\* catches what it raises
TimerTimeout ==
    /\ timer_active
    /\ ScanStep(swallowed(_on_timer_timeout(ScanState)), "timeout")

\* PisakStackedWidget.switch_shown_item called outside an activation (a
\* keyboard-switching button clicked by the mouse): its emit_event hands
\* ITEMS_SWITCHED to the observer and catches what the observer raises
SwitchShownItem(new_item) ==
    /\ Len(Children[new_item]) > 0
    /\ ScanStep(swallowed(handle_event(ScanState, new_item)),
                "switch_shown_item")

\* the focus leaves the scanned widgets (a mouse click elsewhere)
FocusElsewhere ==
    /\ focus_widget # 0
    /\ ScanStep([ScanState EXCEPT !.focus_widget = 0], "focus")

ScanInit ==
    /\ is_scanning = FALSE
    /\ current_item = 0
    /\ timer_active = FALSE
    /\ iter_counter = [i \in ScanItems |-> 0]
    /\ iter_position = [i \in ScanItems |-> 0]
    /\ focus_widget = 0
    /\ scanning_strategy \in [ScanItems -> Strategies]
    /\ max_loop_number \in 1..MaxLoops
    /\ emitted = <<>>
    /\ last_emitted = ""
    /\ focused_log = <<>>
    /\ scan_op = ""
    /\ scan_raised = FALSE

\* no scanning, in the specifications that are not about it
NoScanning ==
    /\ ScanInit
    /\ scanning_strategy = [i \in ScanItems |-> "parent"]
    /\ max_loop_number = 1

\* ------------------------------------------------------------------------
\* EventEmitter (emitters.py): handlers subscribe and unsubscribe, and
\* emit_event hands an event to each of them.
\* ------------------------------------------------------------------------
VARIABLES
    _event_handlers,    \* self._event_handlers, a set
    handler_raises,     \* the handlers whose handle_event raises an Exception
    received,           \* history: per handler, the events handed to it
    last_delivery,      \* history: the handlers the last emit_event called,
                        \* in the order of the calls
    propagated,         \* history: the last emit_event raised to its caller
    emits               \* history: the number of emit_event calls

emitVars == <<_event_handlers, handler_raises, received, last_delivery,
              propagated, emits>>

MaxHandlers == 3
MaxEmits == 2

Handlers == 1..MaxHandlers

\* the orders in which `for handler in self._event_handlers` can visit a set
IterationOrders(handlers) ==
    { order \in [1..Cardinality(handlers) -> handlers] :
        \A i, j \in 1..Cardinality(handlers) : order[i] = order[j] => i = j }

\* `except Exception` around handle_event (lines 36-38)
CaughtNever(handler) == FALSE
Caught(handler) == TRUE

\* the loop of emit_event (lines 33-38) over the rest of the iteration: the
\* handlers called and whether an exception left the loop
RECURSIVE emit_event(_, _)
emit_event(order, called) ==
    IF order = <<>> THEN [called |-> called, propagated |-> FALSE]
    ELSE LET handler == Head(order)
         IN IF handler \in handler_raises /\ ~Caught(handler)
            THEN [called |-> Append(called, handler), propagated |-> TRUE]
            ELSE emit_event(Tail(order), Append(called, handler))

\* subscribe, lines 22-23
Subscribe(handler) ==
    /\ _event_handlers' = _event_handlers \cup {handler}
    /\ UNCHANGED <<handler_raises, received, last_delivery, propagated, emits>>

\* unsubscribe, lines 25-27
Unsubscribe(handler) ==
    /\ _event_handlers' =
           IF handler \in _event_handlers
           THEN _event_handlers \ {handler} ELSE _event_handlers
    /\ UNCHANGED <<handler_raises, received, last_delivery, propagated, emits>>

\* emit_event, lines 29-38
EmitEvent ==
    /\ emits < MaxEmits
    /\ \E order \in IterationOrders(_event_handlers) :
          LET outcome == emit_event(order, <<>>)
          IN /\ received' = [h \in Handlers |->
                               IF h \in Range(outcome.called)
                               THEN received[h] + 1 ELSE received[h]]
             /\ last_delivery' = outcome.called
             /\ propagated' = outcome.propagated
    /\ emits' = emits + 1
    /\ UNCHANGED <<_event_handlers, handler_raises>>

EmitterInit ==
    /\ _event_handlers = {}
    /\ handler_raises \in SUBSET Handlers
    /\ received = [h \in Handlers |-> 0]
    /\ last_delivery = <<>>
    /\ propagated = FALSE
    /\ emits = 0

\* no emitter, in the specifications that are not about it
NoEmitter == EmitterInit /\ handler_raises = {}

\* ------------------------------------------------------------------------
\* Specifications
\* ------------------------------------------------------------------------
vars == <<searchVars, svcVars, normVars, reqVars, scanVars, emitVars>>

\* the search engine alone, called again and again
Init ==
    SearchInit(1) /\ ServiceInit /\ NormInit /\ norm_raw = <<>> /\ NoRequest
    /\ NoScanning
    /\ NoEmitter

Next ==
    \/ \E ctx \in Contexts, kk \in 1..MaxK : Call(ctx, kk) /\ UNCHANGED <<svcVars, normVars, reqVars, scanVars, emitVars>>
    \/ SearchIteration /\ UNCHANGED <<svcVars, normVars, reqVars, scanVars, emitVars>>
    \/ Return /\ UNCHANGED <<svcVars, normVars, reqVars, scanVars, emitVars>>
    \/ GeneratePredictions /\ UNCHANGED <<svcVars, normVars, reqVars, scanVars, emitVars>>

Spec == Init /\ [][Next]_vars

\* the search engine with the tokenizer whose vocabulary has the digit piece
DigitInit ==
    SearchInit(2) /\ ServiceInit /\ NormInit /\ norm_raw = <<>> /\ NoRequest
    /\ NoScanning
    /\ NoEmitter

DigitSpec == DigitInit /\ [][Next]_vars

\* the service around an engine that is not looked into
ServiceSpecInit ==
    /\ SearchInit(1)
    /\ beam_width = 1
    /\ max_word_length = ShortWordLength
    /\ model = 1
    /\ available_words = get_words_set(<<>>)
    /\ ServiceInit
    /\ NormInit
    /\ norm_raw = <<>>
    /\ NoRequest
    /\ NoScanning
    /\ NoEmitter

ServiceSpecNext ==
    \/ Start /\ UNCHANGED <<searchVars, normVars, reqVars, scanVars, emitVars>>
    \/ StopBegin /\ UNCHANGED <<searchVars, normVars, reqVars, scanVars, emitVars>>
    \/ StopPut /\ UNCHANGED <<searchVars, normVars, reqVars, scanVars, emitVars>>
    \/ StopJoin /\ UNCHANGED <<searchVars, normVars, reqVars, scanVars, emitVars>>
    \/ SetCallback /\ UNCHANGED <<searchVars, normVars, reqVars, scanVars, emitVars>>
    \/ RequestBegin /\ UNCHANGED <<searchVars, normVars, reqVars, scanVars, emitVars>>
    \/ RequestTest /\ UNCHANGED <<searchVars, normVars, reqVars, scanVars, emitVars>>
    \/ RequestClear /\ UNCHANGED <<searchVars, normVars, reqVars, scanVars, emitVars>>
    \/ RequestPut /\ UNCHANGED <<searchVars, normVars, reqVars, scanVars, emitVars>>
    \/ \E t \in Threads : WorkerCheck(t) /\ UNCHANGED <<searchVars, normVars, reqVars, scanVars, emitVars>>
    \/ \E t \in Threads : WorkerDequeue(t) /\ UNCHANGED <<searchVars, normVars, reqVars, scanVars, emitVars>>
    \/ \E t \in Threads : WorkerTimeout(t) /\ UNCHANGED <<searchVars, normVars, reqVars, scanVars, emitVars>>
    \/ \E t \in Threads : WorkerGenerate(t) /\ UNCHANGED <<searchVars, normVars, reqVars, scanVars, emitVars>>
    \/ \E t \in Threads : WorkerCallback(t) /\ UNCHANGED <<searchVars, normVars, reqVars, scanVars, emitVars>>

ServiceSpec == ServiceSpecInit /\ [][ServiceSpecNext]_vars

\* the normaliser applied to every raw text of the bound
NormSpecInit ==
    /\ SearchInit(1)
    /\ beam_width = 1
    /\ max_word_length = ShortWordLength
    /\ model = 1
    /\ available_words = get_words_set(<<>>)
    /\ ServiceInit
    /\ NormInit
    /\ NoRequest
    /\ NoScanning
    /\ NoEmitter

NormSpecNext ==
    \/ CleanText /\ UNCHANGED <<searchVars, svcVars, reqVars, scanVars, emitVars>>
    \/ ExtractWord /\ UNCHANGED <<searchVars, svcVars, reqVars, scanVars, emitVars>>

NormSpec == NormSpecInit /\ [][NormSpecNext]_vars

\* the context of every request of the bound
ContextSpecInit ==
    /\ SearchInit(1)
    /\ beam_width = 1
    /\ max_word_length = ShortWordLength
    /\ model = 1
    /\ available_words = get_words_set(<<>>)
    /\ ServiceInit
    /\ NormInit
    /\ norm_raw = <<>>
    /\ RequestInit
    /\ NoScanning
    /\ NoEmitter

ContextSpecNext ==
    \/ HandContext /\ UNCHANGED <<searchVars, svcVars, normVars, scanVars, emitVars>>

ContextSpec == ContextSpecInit /\ [][ContextSpecNext]_vars

\* the scanning manager under every order of its operations
ScanSpecInit ==
    /\ SearchInit(1)
    /\ beam_width = 1
    /\ max_word_length = ShortWordLength
    /\ model = 1
    /\ available_words = get_words_set(<<>>)
    /\ ServiceInit
    /\ NormInit
    /\ norm_raw = <<>>
    /\ NoRequest
    /\ ScanInit
    /\ NoEmitter

ScanSpecNext ==
    \/ \E item \in ScanItems : StartScanning(item) /\ UNCHANGED <<searchVars, svcVars, normVars, reqVars, emitVars>>
    \/ StopScanning /\ UNCHANGED <<searchVars, svcVars, normVars, reqVars, emitVars>>
    \/ \E effect \in HandlerEffects : ActivateCurrentItem(effect) /\ UNCHANGED <<searchVars, svcVars, normVars, reqVars, emitVars>>
    \/ TimerTimeout /\ UNCHANGED <<searchVars, svcVars, normVars, reqVars, emitVars>>
    \/ \E item \in ScanItems : SwitchShownItem(item) /\ UNCHANGED <<searchVars, svcVars, normVars, reqVars, emitVars>>
    \/ FocusElsewhere /\ UNCHANGED <<searchVars, svcVars, normVars, reqVars, emitVars>>

ScanSpec == ScanSpecInit /\ [][ScanSpecNext]_vars

\* an emitter whose handlers come, go and raise
EmitSpecInit ==
    /\ SearchInit(1)
    /\ beam_width = 1
    /\ max_word_length = ShortWordLength
    /\ model = 1
    /\ available_words = get_words_set(<<>>)
    /\ ServiceInit
    /\ NormInit
    /\ norm_raw = <<>>
    /\ NoRequest
    /\ NoScanning
    /\ EmitterInit

EmitSpecNext ==
    \/ \E handler \in Handlers : Subscribe(handler) /\ UNCHANGED <<searchVars, svcVars, normVars, reqVars, scanVars>>
    \/ \E handler \in Handlers : Unsubscribe(handler) /\ UNCHANGED <<searchVars, svcVars, normVars, reqVars, scanVars>>
    \/ EmitEvent /\ UNCHANGED <<searchVars, svcVars, normVars, reqVars, scanVars>>

EmitSpec == EmitSpecInit /\ [][EmitSpecNext]_vars

\* ------------------------------------------------------------------------
\* Properties of get_top_k_words
\* ------------------------------------------------------------------------
ResultIndexes == 1..Len(results)

\* the length-normalised score of a returned entry <<text, probability, n>>
ResultScore(r) == IF r[3] = 0 THEN 0 ELSE Normalise(r[2], r[3])

\* C1: the returned list has at most k entries; the completed pool it is
\* taken from never holds more than k words either.
C1_AtMostK == Len(results) <= k /\ Len(completed_words) <= k

C1_Witness ==
    pc = "done" /\ k >= 2 /\ Len(results) = k /\ beam # <<>>

\* C2 as claimed: the returned probabilities are non-increasing in list
\* order, whatever the token counts (a probability is exp(-r[2] / 1000)).
C2_ProbabilitiesNonIncreasing ==
    pc = "done" =>
        \A i, j \in ResultIndexes : i < j => results[i][2] <= results[j][2]

\* C2 amended: the returned entries are in non-decreasing order of
\* length-normalised score, so the probabilities are non-increasing among
\* entries of the same token count.
C2_OrderedByNormalisedScore ==
    pc = "done" =>
        \A i, j \in ResultIndexes :
            i < j => /\ ResultScore(results[i]) <= ResultScore(results[j])
                     /\ (results[i][3] = results[j][3]
                            => results[i][2] <= results[j][2])

C2_Witness ==
    /\ pc = "done"
    /\ \E i, j \in ResultIndexes :
          /\ i < j
          /\ results[i][3] # results[j][3]
          /\ results[i][2] # results[j][2]

\* C3: no two returned entries have the same display text.
C3_DistinctTexts ==
    \A i, j \in ResultIndexes : i # j => results[i][1] # results[j][1]

\* a candidate with text was expanded with two word-start tokens among its
\* top tokens, and two words were returned
C3_Witness ==
    /\ pc = "done"
    /\ Len(results) >= 2
    /\ \E key \in DOMAIN prob_cache :
          /\ Len(key) > Len(context_tokens)
          /\ Cardinality({i \in 1..Len(prob_cache[key]) :
                 /\ contains_letters_only(prob_cache[key][i][1])
                 /\ starts_new_word(prob_cache[key][i][1])}) >= 2

\* C4: in completion mode every returned text begins with the unfinished
\* word, and every candidate of the beam begins with its seed tokens.
C4_CompletionKeepsPrefix ==
    unfinished_word # <<>> =>
        /\ \A i \in ResultIndexes :
              IsPrefix(strip(unfinished_word), results[i][1])
        /\ \A i \in 1..Len(completed_words) :
              IsPrefix(strip(unfinished_word), completed_words[i].text)
        /\ \A i \in 1..Len(beam) :
              IsPrefix(encode(unfinished_word), beam[i].tokens)

\* a completion search that met word-start tokens and returned longer words
C4_Witness ==
    /\ pc = "done"
    /\ strip(unfinished_word) # <<>>
    /\ \E i \in ResultIndexes :
          Len(results[i][1]) > Len(strip(unfinished_word))
    /\ \E key \in DOMAIN prob_cache :
          \E i \in 1..Len(prob_cache[key]) :
              /\ contains_letters_only(prob_cache[key][i][1])
              /\ starts_new_word(prob_cache[key][i][1])

\* C5: with an oracle that returns a distribution whenever it is asked, the
\* loop runs at most k * beam_width * 10 iterations and the call then
\* returns a list: the engine itself never raises.
C5_ReturnsWithinBound ==
    iteration <= max_iterations /\ exception # "ValueError"

\* C6: a call with the arguments of the first call ends as the first call
\* did: the same list (or the same failure) after the same number of
\* inferences.
C6_Idempotent ==
    (pc \in {"done", "raised"} /\ first_call # <<>>
        /\ context_text = first_call[1].context_text /\ k = first_call[1].k)
    => /\ pc = first_call[1].outcome
       /\ results = first_call[1].results
       /\ inference_count = first_call[1].inference_count

C6_Witness ==
    repeated /\ pc = "done" /\ Len(results) >= 2 /\ inference_count >= 2

\* ------------------------------------------------------------------------
\* Properties of PredictionService
\* ------------------------------------------------------------------------
PendingRequests ==
    {_request_queue[i] : i \in 1..Len(_request_queue)} \ {StopSignal}

\* C7: outside a request_predictions call the only request that can be
\* pending is the latest one; the call returns with exactly that request in
\* the queue; a request it took back is never served.
C7_LatestRequestWins ==
    /\ [](/\ ~InRequest => PendingRequests \subseteq {submitted}
          /\ \A t \in Threads : wreq[t] \notin dropped
          /\ \A d \in delivered : d[1] \notin dropped)
    /\ [][(InRequest /\ mpc' = "idle")
              => _request_queue' = <<submitted>>]_vars

\* a second request replaced the first one, which no worker had dequeued
C7_Witness ==
    /\ mpc = "idle"
    /\ submitted = 2
    /\ 1 \in dropped
    /\ _request_queue = <<2>>
    /\ \E t \in Threads : Alive(t)

\* C8: at most one worker thread is alive at any time, so at most one
\* search is in flight.
C8_SingleWorker ==
    /\ Cardinality({t \in Threads : Alive(t)}) <= 1
    /\ Cardinality({t \in Threads : wpc[t] = "gen"}) <= 1

\* C9: once stop() has cleared _running, no worker begins a search.
C9_NoSearchAfterStop ==
    [][\A t \in Threads :
          (wpc[t] = "get" /\ wpc'[t] = "gen") => _running]_vars

\* C10: a worker thread leaves its loop only at the loop test with _running
\* false or on dequeuing the stop signal: no exception caught while serving
\* a request ends it.
C10_ExceptionKeepsWorker ==
    [][\A t \in Threads :
          (Alive(t) /\ wpc'[t] = "exited")
          => \/ wpc[t] = "check" /\ ~_running
             \/ /\ wpc[t] = "get"
                /\ _request_queue # <<>>
                /\ Head(_request_queue) = StopSignal]_vars

\* a thread that caught an exception for one request has delivered the
\* predictions of a later one
C10_Witness ==
    \E t \in Threads, d \in delivered :
        d[2] = t /\ fault[t] # 0 /\ d[1] > fault[t]

\* ------------------------------------------------------------------------
\* Failures of the oracle and zero probabilities
\* ------------------------------------------------------------------------
\* C11: a call during which predict raised does not end by raising: the
\* exception of the oracle never leaves get_top_k_words.
C11_OracleFailureContained ==
    ~(pc = "raised" /\ exception = "OracleError")

\* C12: no token of probability 0 is among the top tokens selected for a
\* candidate, and the logarithm of 0 is never asked for.
C12_ZeroNeverSelected ==
    /\ \A key \in DOMAIN prob_cache :
          \A i \in 1..Len(prob_cache[key]) : LogDefined(prob_cache[key][i][2])
    /\ ~(pc = "raised" /\ exception = "ValueError")

\* ------------------------------------------------------------------------
\* Properties of _generate_predictions
\* ------------------------------------------------------------------------
\* C13: when the call of the engine raised, _generate_predictions still
\* returns a list with at least one entry.
C13_FallbackNotEmpty ==
    generated = "fallback" => Len(predictions) >= 1

\* the engine raised in a call for two words and two fallback words came back
C13_Witness ==
    /\ generated = "fallback"
    /\ pc = "raised"
    /\ k >= 2
    /\ Len(predictions) = k

\* C14: when there are at least n_words fallback words, the list has exactly
\* n_words entries, whatever the engine returned.
C14_ExactCount ==
    (generated # "" /\ Cardinality(available_words) >= k)
        => Len(predictions) = k

\* the engine returned fewer words than asked for and the list was filled up
C14_Witness ==
    /\ generated = "engine"
    /\ Len(results) >= 1
    /\ Len(results) < k
    /\ Cardinality(available_words) >= k
    /\ Len(predictions) = k

\* C15: every string of the list is upper-cased.
C15_UpperCased ==
    generated # "" =>
        \A i \in 1..Len(predictions) : predictions[i] = upper(predictions[i])

\* ------------------------------------------------------------------------
\* Who runs what
\* ------------------------------------------------------------------------
\* C16: every callback call was made by a worker thread, and a step of
\* request_predictions changes nothing but the queue: no worker position, no
\* request being served, no delivery, no engine state.
C16_CallerOnlyQueues ==
    /\ [](\A d \in delivered : d[2] \in Threads)
    /\ [][(RequestBegin \/ RequestTest \/ RequestClear \/ RequestPut)
             => UNCHANGED <<wpc, wreq, delivered, fault, _callback, _running,
                            _worker_thread, searchVars>>]_vars

\* the latest request has been handed in and its predictions delivered
C16_Witness ==
    /\ mpc = "idle"
    /\ submitted >= 1
    /\ \E d \in delivered : d[1] = submitted

\* ------------------------------------------------------------------------
\* Properties of the text normaliser
\* ------------------------------------------------------------------------
EndsInWhitespace(text) == text # <<>> /\ text[Len(text)] \in Whitespace

\* the index of the last whitespace character of text, 0 when there is none
LastWhitespace(text) ==
    LET at == {i \in 1..Len(text) : text[i] \in Whitespace}
    IN IF at = {} THEN 0 ELSE CHOOSE i \in at : \A j \in at : j <= i

\* C17: a cleaned text that is empty or ends in a whitespace character
\* (space, tab or newline) gives an empty unfinished word, and the whole
\* cleaned text as finished context.
C17_WhitespaceEndMeansNextWord ==
    (norm_pc = "extracted"
        /\ (norm_cleaned = <<>> \/ EndsInWhitespace(norm_cleaned)))
    => (norm_unfinished = <<>> /\ norm_context = norm_cleaned)

\* C18: for a non-empty cleaned text that does not end in whitespace the
\* unfinished word is the last whitespace-delimited token, with no whitespace
\* character in it, and the finished context is what precedes it (with or
\* without the separating whitespace); a single word has an empty context.
C18_LastTokenIsUnfinishedWord ==
    (norm_pc = "extracted" /\ norm_cleaned # <<>>
        /\ ~EndsInWhitespace(norm_cleaned))
    => LET i == LastWhitespace(norm_cleaned)
           before == SubSeq(norm_cleaned, 1, i)
       IN /\ norm_unfinished = SubSeq(norm_cleaned, i + 1, Len(norm_cleaned))
          /\ Range(norm_unfinished) \cap Whitespace = {}
          /\ norm_context \in {before, rstrip(before)}

\* ------------------------------------------------------------------------
\* Invariants of the beam
\* ------------------------------------------------------------------------
\* the keys (context_tokens ++ tokens) of the candidates in the beam
BeamKeys == {context_tokens \o beam[i].tokens : i \in 1..Len(beam)}

\* C19: between iterations, and when the loop has ended, the beam holds at
\* most beam_width candidates.
C19_BeamWithinWidth ==
    pc \in {"loop", "done"} => Len(beam) <= beam_width

\* the beam is full and a candidate short enough to be expanded was dropped
\* by the pruning step: its key is still in beam_prefixes
C19_Witness ==
    /\ pc = "loop"
    /\ iteration >= 1
    /\ beam_width >= 2
    /\ Len(beam) = beam_width
    /\ \E key \in beam_prefixes \ BeamKeys :
          Len(key) - Len(context_tokens) < max_word_length

\* C20: between iterations no token sequence is both in explored_prefixes
\* and in beam_prefixes.
C20_ExploredNotInBeamSet ==
    explored_prefixes \cap beam_prefixes = {}

\* a one-token word was expanded and the same word-start token was among its
\* top tokens: the new candidate it would begin has the key just explored,
\* and was not pushed
C20_Witness ==
    /\ pc = "loop"
    /\ unfinished_word = <<>>
    /\ beam_prefixes # {}
    /\ \E t \in TokenIds :
          LET key == context_tokens \o <<t>>
          IN /\ key \in explored_prefixes
             /\ key \in DOMAIN prob_cache
             /\ starts_new_word(t)
             /\ contains_letters_only(t)
             /\ \E i \in 1..Len(prob_cache[key]) : prob_cache[key][i][1] = t

\* C21: every CompletedWord in the completed pool, and every returned entry,
\* has a non-empty display text.
C21_NonEmptyText ==
    /\ \A i \in 1..Len(completed_words) : completed_words[i].text # <<>>
    /\ \A i \in 1..Len(completed_words_texts) :
           completed_words_texts[i] # <<>>
    /\ \A i \in 1..Len(results) : results[i][1] # <<>>

\* a call has returned words, one of them promoted from a candidate whose
\* text carried surrounding whitespace
C21_Witness ==
    /\ pc = "done"
    /\ Len(results) > 0
    /\ \E i \in 1..Len(completed_words) :
           /\ completed_words[i].text # <<>>
           /\ unfinished_word # <<>>
           /\ strip(unfinished_word) # unfinished_word

\* C22: inference_count is 0 when a call starts and is one more after each
\* invocation of the oracle, so it always equals the number of invocations
\* the call has made.
C22_CountsOracleCalls == inference_count = Len(predict_calls)

\* the tokens the first expansion of a call selects: the top beam_width
\* tokens after the context and the tokens of the unfinished word
FirstTokens ==
    _get_top_tokens(predict(model, context_tokens \o encode(unfinished_word)),
                    beam_width)

\* those of a selection the expansion loop does not skip
RECURSIVE LetterTokens(_)
LetterTokens(top_tokens) ==
    IF top_tokens = <<>> THEN <<>>
    ELSE IF contains_letters_only(Head(top_tokens)[1])
         THEN <<Head(top_tokens)>> \o LetterTokens(Tail(top_tokens))
         ELSE LetterTokens(Tail(top_tokens))

FirstWords == LetterTokens(FirstTokens)

\* the first tokens are word-start tokens, at least k of them, with
\* distinct probabilities p1 > p2 > ...
FirstTokensAreWords ==
    /\ Len(FirstWords) >= k
    /\ \A i \in 1..Len(FirstWords) :
           /\ starts_new_word(FirstWords[i][1])
           /\ i < Len(FirstWords) => FirstWords[i][2] > FirstWords[i + 1][2]

\* the k most probable of the first words, each with its oracle probability
\* and token count 1
FirstWordsAsResults ==
    [i \in 1..k |-> <<lstrip(decode(FirstWords[i][1])),
                      NegLog(FirstWords[i][2]), 1>>]

\* what a call returns whose context does not end in a space and whose first
\* tokens are word-start tokens: the unfinished word alone, with probability
\* 1 (exp(-0)) and the token count of its encoding
UnfinishedWordAsResult ==
    << <<strip(unfinished_word), 0, Len(encode(unfinished_word))>> >>

PoolWords(r) ==
    { w \in Range(completed_words) :
          /\ w.text = r[1]
          /\ w.prob_neg_log = r[2]
          /\ Len(w.tokens) = r[3] }

\* C24: the returned list is the k words of the completed pool with the
\* lowest normalised score (the whole pool when it holds fewer), in ascending
\* order of normalised score, and the probability reported for a word is
\* that of its raw cumulative negative log-probability, of which the
\* normalised score is the length-penalised value.
C24_LowestScoresReturned ==
    pc = "done" =>
        /\ Len(results) = Min(k, Len(completed_words))
        /\ \A i \in 1..Len(results) :
               \E w \in PoolWords(results[i]) :
                   /\ w.neg_log_prob_normalised =
                          Normalise(results[i][2], results[i][3])
                   /\ \A j \in 1..Len(results) :
                          i < j => \E v \in PoolWords(results[j]) :
                                       w.neg_log_prob_normalised
                                           <= v.neg_log_prob_normalised
                   /\ \A v \in Range(completed_words) :
                          (\A j \in 1..Len(results) : results[j][1] # v.text)
                              => w.neg_log_prob_normalised
                                     <= v.neg_log_prob_normalised

\* two words of different normalised score and different raw score have
\* been returned
C24_Witness ==
    /\ pc = "done"
    /\ Len(results) = 2
    /\ Len(completed_words) = 2
    /\ results[1][2] > 0
    /\ results[1][2] # results[2][2]
    /\ Normalise(results[1][2], results[1][3])
           < Normalise(results[2][2], results[2][3])

\* round(1000 * (penalty_value + n) ** alpha / (penalty_value + 1) ** alpha)
\* for n = 1..15: the length penalty as the claim states it
StatedPenaltyTable ==
    <<1000, 1097, 1188, 1275, 1359, 1439, 1516, 1590, 1663, 1733,
      1801, 1868, 1933, 1997, 2059>>

\* C25: every candidate in the beam that the search pushed has normalised
\* score = raw score * (penalty_value + len) ^ alpha / (penalty_value + 1) ^
\* alpha, len being its token count, so that the normalised score of a
\* one-token candidate is its raw score.
C25_StatedNormalisedScore ==
    \A i \in 1..Len(beam) :
        beam[i].neg_log_prob > 0 =>
            beam[i].neg_log_prob_normalised =
                beam[i].neg_log_prob * StatedPenaltyTable[Len(beam[i].tokens)]

\* the candidate the next iteration pops, and its cache key
PoppedCandidate == heappop(beam)[1]
PoppedKey == context_tokens \o PoppedCandidate.tokens

\* C26: a popped candidate that was not explored before is discarded
\* without expansion exactly when it has more than max_word_length tokens;
\* one with exactly max_word_length tokens is expanded.
C26_PrunedOnlyWhenLonger ==
    [][(pc = "loop" /\ iteration' = iteration + 1
        /\ PoppedKey \notin explored_prefixes)
           => (PoppedKey \in explored_prefixes'
                   <=> Len(PoppedCandidate.tokens) <= max_word_length)]_vars

\* C27: in next-word mode the expansion of a candidate with non-empty text
\* adds no one-token candidate to the beam: a word-start token only promotes
\* the candidate, and starts a new word only when the candidate's text is
\* empty.
C27_BoundaryOnlyPromotes ==
    [][(/\ pc = "loop"
        /\ iteration' = iteration + 1
        /\ unfinished_word = <<>>
        /\ strip(PoppedCandidate.text) # <<>>)
           => \A i \in 1..Len(beam') :
                  Len(beam'[i].tokens) = 1 => beam'[i] \in Range(beam)]_vars

\* the sum, over the tokens of toks from position from on, of the negative
\* log of the oracle probability of the token after context_tokens and the
\* tokens of toks before it (-1 when that probability is 0)
RECURSIVE ChainNegLog(_, _)
ChainNegLog(toks, from) ==
    IF from > Len(toks) THEN 0
    ELSE LET p == predict(model, context_tokens \o SubSeq(toks, 1, from - 1))
                      [toks[from] + 1]
             rest == ChainNegLog(toks, from + 1)
         IN IF p = 0 \/ rest = -1 THEN -1 ELSE NegLog(p) + rest

\* C28: the probability of every completed word is the product, over the
\* tokens the search appended to it, of the oracle probability of the token
\* given context_tokens and the word's preceding tokens; the tokens of the
\* seeded unfinished word contribute the factor 1.
C28_ProbabilityIsOracleProduct ==
    \A i \in 1..Len(completed_words) :
        completed_words[i].prob_neg_log =
            ChainNegLog(completed_words[i].tokens,
                        Len(encode(unfinished_word)) + 1)

\* C29: at the end of every iteration the beam-membership set is the set of
\* the keys of the candidates in the beam.
C29_MembershipIsBeamKeys == pc = "loop" => beam_prefixes = BeamKeys

\* C30: within a call the oracle is invoked at most once with any token
\* sequence, no two candidates in the beam have the same tokens, and
\* inference_count always equals the size of the explored-prefix set.
C30_OncePerSequence ==
    /\ \A i, j \in 1..Len(predict_calls) :
           i # j => predict_calls[i] # predict_calls[j]
    /\ \A i, j \in 1..Len(beam) : i # j => beam[i].tokens # beam[j].tokens
    /\ inference_count = Cardinality(explored_prefixes)

\* ------------------------------------------------------------------------
\* The token filter
\* ------------------------------------------------------------------------
\* the tokens of a candidate or word that the search appended: those after
\* the tokens of the seeded unfinished word
AppendedTokens(toks) ==
    {toks[i] : i \in (Len(encode(unfinished_word)) + 1)..Len(toks)}

\* what the expansion of the popped candidate selects
PoppedSelection ==
    _get_top_tokens(predict(model, PoppedKey), beam_width)

\* C31: a token whose decoded text is not alphabetic is never appended to a
\* candidate and never starts a new word (no candidate and no completed word
\* carries one behind the seeded tokens), and it never triggers a promotion
\* (an iteration that adds a word to the completed pool has selected an
\* alphabetic word-start token).
C31_NonAlphabeticSkipped ==
    /\ [](/\ \A i \in 1..Len(beam) :
                 \A t \in AppendedTokens(beam[i].tokens) : isalpha(decode(t))
          /\ \A i \in 1..Len(completed_words) :
                 \A t \in AppendedTokens(completed_words[i].tokens) :
                     isalpha(decode(t)))
    /\ [][(pc = "loop" /\ completed_words' # completed_words)
              => \E i \in 1..Len(PoppedSelection) :
                     /\ isalpha(decode(PoppedSelection[i][1]))
                     /\ starts_new_word(PoppedSelection[i][1])]_vars

\* a call has expanded a candidate that carries text (a word begun from the
\* empty candidate) and selected for it, with positive probability, a
\* word-start token whose text is a digit: the candidate was not promoted
\* and no word was begun, so the call returned nothing
C31_Witness ==
    /\ pc = "done"
    /\ unfinished_word = <<>>
    /\ completed_words = <<>>
    /\ results = <<>>
    /\ \E key \in DOMAIN prob_cache :
           /\ Len(key) > Len(context_tokens)
           /\ \E i \in 1..Len(prob_cache[key]) :
                  /\ ~isalpha(decode(prob_cache[key][i][1]))
                  /\ starts_new_word(prob_cache[key][i][1])
                  /\ prob_cache[key][i][2] > 0

\* ------------------------------------------------------------------------
\* Liveness of PredictionService
\* ------------------------------------------------------------------------
\* the scheduler is fair to every worker thread, and a call of stop or
\* request_predictions that has begun runs to its end; nothing obliges the
\* caller to begin a call
ServiceFairness ==
    /\ \A t \in Threads :
           /\ WF_vars(WorkerCheck(t) /\ UNCHANGED <<searchVars, normVars, reqVars, scanVars, emitVars>>)
           /\ WF_vars(WorkerDequeue(t) /\ UNCHANGED <<searchVars, normVars, reqVars, scanVars, emitVars>>)
           /\ WF_vars(WorkerTimeout(t) /\ UNCHANGED <<searchVars, normVars, reqVars, scanVars, emitVars>>)
           /\ WF_vars(WorkerGenerate(t) /\ UNCHANGED <<searchVars, normVars, reqVars, scanVars, emitVars>>)
           /\ WF_vars(WorkerCallback(t) /\ UNCHANGED <<searchVars, normVars, reqVars, scanVars, emitVars>>)
    /\ WF_vars(StopPut /\ UNCHANGED <<searchVars, normVars, reqVars, scanVars, emitVars>>)
    /\ WF_vars(StopJoin /\ UNCHANGED <<searchVars, normVars, reqVars, scanVars, emitVars>>)
    /\ WF_vars(RequestTest /\ UNCHANGED <<searchVars, normVars, reqVars, scanVars, emitVars>>)
    /\ WF_vars(RequestClear /\ UNCHANGED <<searchVars, normVars, reqVars, scanVars, emitVars>>)
    /\ WF_vars(RequestPut /\ UNCHANGED <<searchVars, normVars, reqVars, scanVars, emitVars>>)

ServiceLiveSpec ==
    ServiceSpecInit /\ [][ServiceSpecNext]_vars /\ ServiceFairness

\* C32: while the service is running and a callback is registered, the most
\* recently submitted request, waiting in the queue, is eventually dequeued
\* and delivered to the callback, unless a newer request is submitted or the
\* service is stopped first; this holds again after a restart.
C32_LatestRequestDelivered ==
    \A n \in 1..MaxRequests :
        (/\ _running
         /\ _callback
         /\ mpc = "idle"
         /\ submitted = n
         /\ n \in Range(_request_queue))
            ~> (\/ \E t \in Threads : <<n, CallbackContext(t)>> \in delivered
                \/ submitted > n
                \/ ~_running)

\* C33: once stop() has returned (no call in progress, _running false) the
\* callback is not invoked any more.
C33_NoCallbackAfterStop ==
    [][(~_running /\ mpc = "idle") => delivered' = delivered]_vars

\* ------------------------------------------------------------------------
\* Properties of the context of a request
\* ------------------------------------------------------------------------
\* C34: the context handed to the engine is the text before the cursor,
\* text[0:cursor_position]; it is empty when the cursor is at position 0.
C34_ContextIsTextBeforeCursor ==
    req_pc = "searched" =>
        /\ req_context = Slice(req_text, req_cursor)
        /\ req_cursor = 0 => req_context = <<>>

\* ------------------------------------------------------------------------
\* Properties of ScanningManager
\* ------------------------------------------------------------------------

\* C35: after any sequence of start_scanning, stop_scanning,
\* activate_current_item and timer timeouts, is_scanning is true exactly when
\* current_item is set and exactly when the scan timer is active.
C35_ScanningStateAgrees ==
    /\ is_scanning <=> current_item # 0
    /\ is_scanning <=> timer_active

\* the SCANNING_STARTED and SCANNING_STOPPED events emitted so far, as far
\* as the history keeps them: the last one before the last operation, then
\* those of the last operation
RecentStartStop ==
    (IF last_emitted = "" THEN <<>> ELSE <<last_emitted>>)
        \o StartStopEvents(emitted)

\* C36: the SCANNING_STARTED and SCANNING_STOPPED events strictly alternate,
\* beginning with SCANNING_STARTED; starting a scan while another is active
\* first emits SCANNING_STOPPED for the old one, and stop_scanning when not
\* scanning emits nothing.
C36_StartedStoppedAlternate ==
    /\ [](/\ \A i \in 1..(Len(RecentStartStop) - 1) :
                RecentStartStop[i] # RecentStartStop[i + 1]
          /\ (last_emitted = "" /\ RecentStartStop # <<>>)
                => RecentStartStop[1] = "SCANNING_STARTED")
    /\ [][/\ (scan_op' = "start_scanning" /\ is_scanning)
                => StartStopEvents(emitted')
                       = <<"SCANNING_STOPPED", "SCANNING_STARTED">>
          /\ (scan_op' = "stop_scanning" /\ ~is_scanning)
                => emitted' = <<>>]_vars

\* the number of focus steps of a whole scan of the item
FocusSteps(item) == max_loop_number * Len(Children[item])

\* the child focused by focus step i of a scan of the item
CyclicChild(item, i) == Children[item][((i - 1) % Len(Children[item])) + 1]

\* C37: without activation, a scan of an item with n >= 1 scannable
\* children focuses the children cyclically in list order for exactly
\* max_loop_number * n focus steps; the next timer timeout resets the scan
\* to the target of the item's scanning strategy, or stops scanning when
\* there is no strategy or no scannable target.
C37_LoopsThenReset ==
    /\ [](is_scanning =>
            /\ Len(focused_log) \in 1..FocusSteps(current_item)
            /\ \A i \in 1..Len(focused_log) :
                   focused_log[i] = CyclicChild(current_item, i)
            /\ focus_widget \in {0, focused_log[Len(focused_log)]})
    /\ [][(is_scanning /\ scan_op' = "timeout") =>
            IF Len(focused_log) < FocusSteps(current_item)
            THEN /\ is_scanning'
                 /\ current_item' = current_item
                 /\ focused_log' =
                        Append(focused_log,
                               CyclicChild(current_item, Len(focused_log) + 1))
                 /\ focus_widget' = focused_log'[Len(focused_log')]
            ELSE LET strategy == scanning_strategy[current_item]
                     target == reset_scan(strategy, current_item)
                 IN IF strategy # "none" /\ IsScannableItem(target)
                    THEN /\ is_scanning'
                         /\ current_item' = target
                         /\ focused_log' = <<CyclicChild(target, 1)>>
                    ELSE ~is_scanning']_vars

\* ------------------------------------------------------------------------
\* Properties of EventEmitter
\* ------------------------------------------------------------------------

\* C38: emit_event hands the event to every subscribed handler even when
\* some handler raises: the exception of one handler neither keeps the
\* event from the remaining handlers nor reaches the caller of emit_event.
C38_EveryHandlerReceives ==
    /\ [](~propagated)
    /\ [][emits' = emits + 1 =>
            /\ Range(last_delivery') = _event_handlers
            /\ Len(last_delivery') = Cardinality(_event_handlers)
            /\ \A h \in _event_handlers : received'[h] = received[h] + 1
            /\ \A h \in Handlers \ _event_handlers :
                   received'[h] = received[h]]_vars

\* the first handler called raised, and two more were called after it
C38_Witness ==
    /\ emits > 0
    /\ Len(last_delivery) = 3
    /\ last_delivery[1] \in handler_raises
    /\ \A h \in Handlers : received[h] > 0

====
